---- MODULE Spec2Model ----
(***************************************************************************)
(* Model of poke-shiritori-util (src/src/App.tsx): the normalization       *)
(* pipeline for Japanese names, the shiritori validity predicate, and the  *)
(* six-slot picker form that uses them.                                    *)
(*                                                                         *)
(* A string is a sequence of UTF-16 code units written in decimal; every   *)
(* character used here lies in the Basic Multilingual Plane, so a code     *)
(* unit is a code point.                                                   *)
(***************************************************************************)
EXTENDS Integers, Sequences, FiniteSets, TLC

VARIABLES input, key, again, pc,
          prev, next, curr, checked, verdict,
          inputValues, selectedPokemon, useOnlyFinalEvolutions

vars == <<input, key, again, pc,
          prev, next, curr, checked, verdict,
          inputValues, selectedPokemon, useOnlyFinalEvolutions>>

normVars == <<input, key, again, pc>>
linkVars == <<prev, next, curr, checked, verdict>>
formVars == <<inputValues, selectedPokemon, useOnlyFinalEvolutions>>

----------------------------------------------------------------------------
(* Characters *)

KA == 12459                 \* U+30AB katakana KA
GA == 12460                 \* U+30AC katakana GA
TSU == 12484                \* U+30C4 katakana TU
SMALL_TSU == 12483          \* U+30C3 katakana small TU
ZE == 12476                 \* U+30BC katakana ZE
TO_ == 12488                \* U+30C8 katakana TO
CHOON == 12540              \* U+30FC long-vowel mark
HIRA_GA == 12364            \* U+304C hiragana GA
HIRA_SMALL_TSU == 12387     \* U+3063 hiragana small TU
FW_TWO == 65298             \* U+FF12 full-width digit two
FW_Z == 65338               \* U+FF3A full-width capital Z
ASCII_TWO == 50             \* U+0032
ASCII_Z == 90               \* U+005A
SPACE == 32                 \* U+0020
IDEOGRAPHIC_SPACE == 12288  \* U+3000
COMBINING_DAKUTEN == 12441  \* U+3099 combining voiced sound mark
HW_KA == 65398              \* U+FF76 half-width katakana KA
HW_DAKUTEN == 65438         \* U+FF9E half-width voiced sound mark
HW_CHOON == 65392           \* U+FF70 half-width long-vowel mark

HiraganaFirst == 12353      \* 0x3041
HiraganaLast == 12438       \* 0x3096
KanaOffset == 96            \* 0x60
FullWidthFirst == 65281     \* U+FF01
FullWidthLast == 65374      \* U+FF5E
FullWidthOffset == 65248    \* 0xFEE0

----------------------------------------------------------------------------
(* String primitives of the language runtime *)

RECURSIVE Concat(_)
Concat(ss) == IF ss = <<>> THEN <<>> ELSE Head(ss) \o Concat(Tail(ss))

Last(s) == s[Len(s)]

\* s.startsWith(t)
startsWith(s, t) == Len(t) <= Len(s) /\ SubSeq(s, 1, Len(t)) = t

\* s.endsWith(t)
endsWith(s, t) == Len(t) <= Len(s) /\ SubSeq(s, Len(s) - Len(t) + 1, Len(s)) = t

\* s.slice(-1): the last code unit, or '' for the empty string
sliceLast(s) == IF s = <<>> THEN <<>> ELSE <<Last(s)>>

\* String(undefined), the text an undefined argument is converted to
UndefinedText == <<117, 110, 100, 101, 102, 105, 110, 101, 100>>

\* s[0] converted to the search string of endsWith: undefined when s is ''
firstCharText(s) == IF s = <<>> THEN UndefinedText ELSE <<s[1]>>

\* White space removed by String.prototype.trim
WhiteSpace == {SPACE, IDEOGRAPHIC_SPACE}

RECURSIVE trimStart(_)
trimStart(s) ==
  IF s # <<>> /\ Head(s) \in WhiteSpace THEN trimStart(Tail(s)) ELSE s

RECURSIVE trimEnd(_)
trimEnd(s) ==
  IF s # <<>> /\ Last(s) \in WhiteSpace
  THEN trimEnd(SubSeq(s, 1, Len(s) - 1)) ELSE s

trim(s) == trimEnd(trimStart(s))

\* ASCII part of String.prototype.toLowerCase
toLowerCase(s) ==
  [i \in 1..Len(s) |-> IF s[i] >= 65 /\ s[i] <= 90 THEN s[i] + 32 ELSE s[i]]

(* String.prototype.normalize('NFKC'), restricted to kana, ASCII, their      *)
(* full-width and half-width compatibility forms and the combining voiced   *)
(* sound mark.  Compatibility mapping per character:                        *)
compatChar(c) ==
  IF c >= FullWidthFirst /\ c <= FullWidthLast THEN c - FullWidthOffset
  ELSE IF c = IDEOGRAPHIC_SPACE THEN SPACE
  ELSE IF c = HW_KA THEN KA
  ELSE IF c = HW_DAKUTEN THEN COMBINING_DAKUTEN
  ELSE IF c = HW_CHOON THEN CHOON
  ELSE c

\* katakana of the K, S, T and H rows that have a precomposed voiced form
\* at the next code point; the hiragana forms are KanaOffset below
VoicableKatakana ==
  {12459, 12461, 12463, 12465, 12467,
   12469, 12471, 12473, 12475, 12477,
   12479, 12481, 12484, 12486, 12488,
   12495, 12498, 12501, 12504, 12507}

Voicable == VoicableKatakana \cup {c - KanaOffset : c \in VoicableKatakana}

\* canonical composition: a voicable kana directly followed by U+3099
\* becomes its precomposed voiced form; any other U+3099 stays
RECURSIVE compose(_, _)
compose(done, rest) ==
  IF rest = <<>> THEN done
  ELSE IF Head(rest) = COMBINING_DAKUTEN /\ done # <<>> /\ Last(done) \in Voicable
       THEN compose(SubSeq(done, 1, Len(done) - 1) \o <<Last(done) + 1>>, Tail(rest))
       ELSE compose(Append(done, Head(rest)), Tail(rest))

NFKC(s) == compose(<<>>, [i \in 1..Len(s) |-> compatChar(s[i])])

----------------------------------------------------------------------------
(* Helpers to compare Japanese strings *)

specialCases ==
  << <<FW_TWO, <<TSU, CHOON>> >>,
     <<FW_Z, <<ZE, SMALL_TSU, TO_>> >> >>

\* out.split(from).join(to) for a one-character key
splitJoin(out, from, to) ==
  Concat([i \in 1..Len(out) |-> IF out[i] = from THEN to ELSE <<out[i]>>])

RECURSIVE replaceEntries(_, _)
replaceEntries(out, entries) ==
  IF entries = <<>> THEN out
  ELSE replaceEntries(splitJoin(out, Head(entries)[1], Head(entries)[2]),
                      Tail(entries))

normalizeSpecialCases(input_) ==
  IF input_ = <<>> THEN <<>> ELSE replaceEntries(input_, specialCases)

\* variant: only one trailing mark is dropped
dropTrailingMarks_once(nk, end) ==
  IF end >= 1 /\ nk[end] = CHOON THEN end - 1 ELSE end

RECURSIVE dropTrailingMarks(_, _)
dropTrailingMarks(nk, end) ==
  IF end >= 1 /\ nk[end] = CHOON THEN dropTrailingMarks(nk, end - 1) ELSE end

normalizeEnding(input_) ==
  IF input_ = <<>> THEN <<>>
  ELSE LET nk == NFKC(input_)
       IN SubSeq(nk, 1, dropTrailingMarks(nk, Len(nk)))

\* variant: the offset is not applied
hiraganaToKatakana_unshifted(code) == code

hiraganaToKatakana(code) ==
  IF code >= HiraganaFirst /\ code <= HiraganaLast THEN code + KanaOffset ELSE code

normalizeKana(input_) ==
  IF input_ = <<>> THEN <<>>
  ELSE LET nk == NFKC(input_)
       IN toLowerCase([i \in 1..Len(nk) |-> hiraganaToKatakana(nk[i])])

\* the table of normalizeDakuten: voiced or semi-voiced kana :> base
dakutenMap ==
  12460 :> 12459 @@ 12462 :> 12461 @@ 12464 :> 12463 @@ 12466 :> 12465 @@ 12468 :> 12467 @@
  12470 :> 12469 @@ 12472 :> 12471 @@ 12474 :> 12473 @@ 12476 :> 12475 @@ 12478 :> 12477 @@
  12480 :> 12479 @@ 12482 :> 12481 @@ 12485 :> 12484 @@ 12487 :> 12486 @@ 12489 :> 12488 @@
  12496 :> 12495 @@ 12499 :> 12498 @@ 12502 :> 12501 @@ 12505 :> 12504 @@ 12508 :> 12507 @@
  12497 :> 12495 @@ 12500 :> 12498 @@ 12503 :> 12501 @@ 12506 :> 12504 @@ 12509 :> 12507

Voiced == DOMAIN dakutenMap

\* map[ch] || ch
devoice(ch) == IF ch \in Voiced THEN dakutenMap[ch] ELSE ch

normalizeDakuten(input_) ==
  [index \in 1..Len(input_) |->
     IF index = 1 \/ index = Len(input_) THEN devoice(input_[index])
     ELSE input_[index]]

smallHira == {12353, 12355, 12357, 12359, 12361, 12387, 12419, 12421, 12423, 12430}
smallKata == {12449, 12451, 12453, 12455, 12457, 12483, 12515, 12517, 12519, 12526,
              12533, 12534}

isSmallKana(ch) == ch \in smallHira \/ ch \in smallKata

\* the table of normalizeSmallKana: small kana :> large kana
smallKanaMap ==
  12353 :> 12354 @@ 12355 :> 12356 @@ 12357 :> 12358 @@ 12359 :> 12360 @@ 12361 :> 12362 @@
  12419 :> 12420 @@ 12421 :> 12422 @@ 12423 :> 12424 @@ 12430 :> 12431 @@
  12387 :> 12388 @@
  12437 :> 12363 @@ 12438 :> 12369 @@
  12449 :> 12450 @@ 12451 :> 12452 @@ 12453 :> 12454 @@ 12455 :> 12456 @@ 12457 :> 12458 @@
  12515 :> 12516 @@ 12517 :> 12518 @@ 12519 :> 12520 @@ 12526 :> 12527 @@
  12483 :> 12484 @@
  12533 :> 12459 @@ 12534 :> 12465

\* (isSmallKana(ch) && map[ch]) ? map[ch] : ch
enlarge(ch) ==
  IF isSmallKana(ch) /\ ch \in DOMAIN smallKanaMap THEN smallKanaMap[ch] ELSE ch

\* variant: small kana are enlarged at the first and last position only
normalizeSmallKana_edges(input_) ==
  IF input_ = <<>> THEN <<>>
  ELSE LET nk == NFKC(input_)
       IN [i \in 1..Len(nk) |->
             IF i = 1 \/ i = Len(nk) THEN enlarge(nk[i]) ELSE nk[i]]

normalizeSmallKana(input_) ==
  IF input_ = <<>> THEN <<>>
  ELSE LET nk == NFKC(input_)
       IN [i \in 1..Len(nk) |-> enlarge(nk[i])]

normalize(input_) ==
  IF input_ = <<>> THEN <<>>
  ELSE normalizeSmallKana(normalizeDakuten(normalizeKana(
         normalizeEnding(normalizeSpecialCases(input_)))))

----------------------------------------------------------------------------
(* Chain validity *)

\* Pokemon | null is a set holding at most one record
null == {}

Some(p) == {p}

Pokemon(id, jpName, isFinalEvolution, isRestricted) ==
  [id |-> id, jpName |-> jpName,
   isFinalEvolution |-> isFinalEvolution, isRestricted |-> isRestricted]

\* p?.jpName ?? ''
jpNameOrEmpty(p) == IF p = null THEN <<>> ELSE (CHOOSE q \in p : TRUE).jpName

\* variant: no early return for a blank text
getShiritoriValidity_noBlank(prev_, next_, curr_) ==
  LET normalizedCurr == normalize(curr_)
      prevName == jpNameOrEmpty(prev_)
      nextName == jpNameOrEmpty(next_)
      prevMatch == IF prevName # <<>>
                   THEN startsWith(normalizedCurr, sliceLast(normalize(prevName)))
                   ELSE TRUE
      nextMatch == IF nextName # <<>>
                   THEN endsWith(normalizedCurr, firstCharText(normalize(nextName)))
                   ELSE TRUE
  IN prevMatch /\ nextMatch

getShiritoriValidity(prev_, next_, curr_) ==
  IF trim(curr_) = <<>> THEN TRUE
  ELSE LET normalizedCurr == normalize(curr_)
           prevName == jpNameOrEmpty(prev_)
           nextName == jpNameOrEmpty(next_)
           prevMatch == IF prevName # <<>>
                        THEN startsWith(normalizedCurr, sliceLast(normalize(prevName)))
                        ELSE TRUE
           nextMatch == IF nextName # <<>>
                        THEN endsWith(normalizedCurr, firstCharText(normalize(nextName)))
                        ELSE TRUE
       IN prevMatch /\ nextMatch

----------------------------------------------------------------------------
(* Bounds and input sets *)

MaxLen == 3
MaxCandLen == 2
MaxNameLen == 2

SeqsUpTo(S, n) == UNION {[1..k -> S] : k \in 0..n}

Alphabet == {KA, GA, HIRA_GA, HIRA_SMALL_TSU, CHOON, FW_TWO, FW_Z, ASCII_Z,
             COMBINING_DAKUTEN, HW_DAKUTEN}

Inputs == SeqsUpTo(Alphabet, MaxLen)

CandAlphabet == {KA, GA, TSU, CHOON, SPACE}
NameAlphabet == {KA, TSU, CHOON}

Candidates == SeqsUpTo(CandAlphabet, MaxCandLen)
Neighbours ==
  {null} \cup {Some(Pokemon(1, n, TRUE, FALSE)) : n \in SeqsUpTo(NameAlphabet, MaxNameLen)}

----------------------------------------------------------------------------
(* normalize applied to an input, then to its own result *)

NormIdle == input = <<>> /\ key = <<>> /\ again = <<>> /\ pc = "idle"
LinkIdle == prev = null /\ next = null /\ curr = <<>> /\ checked = FALSE /\ verdict = FALSE

Normalize ==
  /\ pc = "start"
  /\ key' = normalize(input)
  /\ pc' = "normalized"
  /\ UNCHANGED <<input, again, linkVars, formVars>>

Renormalize ==
  /\ pc = "normalized"
  /\ again' = normalize(key)
  /\ pc' = "done"
  /\ UNCHANGED <<input, key, linkVars, formVars>>

(* getShiritoriValidity applied to a predecessor, a successor and a text *)

CheckLink ==
  /\ ~checked
  /\ verdict' = getShiritoriValidity(prev, next, curr)
  /\ checked' = TRUE
  /\ UNCHANGED <<prev, next, curr, normVars, formVars>>

----------------------------------------------------------------------------
(* The six-slot form *)

NumSlots == 6

Slots == 0..(NumSlots - 1)

DU == 12485                 \* U+30C5 katakana DU

\* the entries of resource/data.json used here
data ==
  << Pokemon(1, <<GA, FW_TWO>>, TRUE, FALSE),
     Pokemon(2, <<DU, KA, CHOON>>, FALSE, FALSE),
     Pokemon(3, <<TSU, TSU>>, TRUE, TRUE) >>

\* texts a picker's input field can hold
InputTexts == {<<>>, <<HIRA_GA>>}

\* selectedPokemon[index], undefined outside the array
slotAt(selected, index) == IF index \in DOMAIN selected THEN selected[index] ELSE null

\* (inputValues[index] || '').trim()
rawInput(inputs, index) == trim(inputs[index])

\* variant: the filter does not look at the next slot
passesFilter_noNext(selected, inputs, onlyFinal, index, p) ==
  LET currentInput == normalizeKana(rawInput(inputs, index))
      prevPokemon == slotAt(selected, index - 1)
      label == p.jpName
  IN IF p.isRestricted THEN FALSE
     ELSE IF onlyFinal /\ ~p.isFinalEvolution THEN FALSE
     ELSE IF ~getShiritoriValidity(prevPokemon, null, label) THEN FALSE
     ELSE IF currentInput # <<>> THEN startsWith(normalizeKana(label), currentInput)
     ELSE TRUE

\* the filter predicate of picker(index), for the state of the render
passesFilter(selected, inputs, onlyFinal, index, p) ==
  LET currentInput == normalizeKana(rawInput(inputs, index))
      prevPokemon == slotAt(selected, index - 1)
      nextPokemon == slotAt(selected, index + 1)
      label == p.jpName
  IN IF p.isRestricted THEN FALSE
     ELSE IF onlyFinal /\ ~p.isFinalEvolution THEN FALSE
     ELSE IF ~getShiritoriValidity(prevPokemon, nextPokemon, label) THEN FALSE
     ELSE IF currentInput # <<>> THEN startsWith(normalizeKana(label), currentInput)
     ELSE TRUE

filtered(selected, inputs, onlyFinal, index) ==
  {p \in {data[k] : k \in DOMAIN data} :
     passesFilter(selected, inputs, onlyFinal, index, p)}

\* the options the picker of slot index offers
filterOptions(selected, inputs, onlyFinal, index) ==
  LET shouldGate == /\ rawInput(inputs, index) = <<>>
                    /\ slotAt(selected, index - 1) = null
                    /\ slotAt(selected, index + 1) = null
  IN IF shouldGate THEN {} ELSE filtered(selected, inputs, onlyFinal, index)

\* the options of slot index in the current state
options(index) ==
  filterOptions(selectedPokemon, inputValues, useOnlyFinalEvolutions, index)

\* onChange with an offered option
SelectOption(index, v) ==
  /\ v \in options(index)
  /\ selectedPokemon' = [selectedPokemon EXCEPT ![index] = Some(v)]
  /\ UNCHANGED <<inputValues, useOnlyFinalEvolutions, normVars, linkVars>>

\* onChange with null
ClearSlot(index) ==
  /\ selectedPokemon[index] # null
  /\ selectedPokemon' = [selectedPokemon EXCEPT ![index] = null]
  /\ UNCHANGED <<inputValues, useOnlyFinalEvolutions, normVars, linkVars>>

\* onInputChange
InputChange(index, v) ==
  /\ v # inputValues[index]
  /\ inputValues' = [inputValues EXCEPT ![index] = v]
  /\ UNCHANGED <<selectedPokemon, useOnlyFinalEvolutions, normVars, linkVars>>

\* the checkbox
ToggleFinalEvolutions ==
  /\ useOnlyFinalEvolutions' = ~useOnlyFinalEvolutions
  /\ UNCHANGED <<inputValues, selectedPokemon, normVars, linkVars>>

FormIdle ==
  /\ inputValues = [i \in Slots |-> <<>>]
  /\ selectedPokemon = [i \in Slots |-> null]
  /\ useOnlyFinalEvolutions = FALSE

----------------------------------------------------------------------------
(* Specifications *)

Init == NormIdle /\ LinkIdle /\ FormIdle

Next ==
  \/ \E index \in Slots : \E v \in options(index) : SelectOption(index, v)
  \/ \E index \in Slots : ClearSlot(index)
  \/ \E index \in Slots : \E v \in InputTexts : InputChange(index, v)
  \/ ToggleFinalEvolutions

Spec == Init /\ [][Next]_vars

InitNormalize ==
  /\ input \in Inputs
  /\ key = <<>>
  /\ again = <<>>
  /\ pc = "start"
  /\ LinkIdle
  /\ FormIdle

NextNormalize == Normalize \/ Renormalize

SpecNormalize == InitNormalize /\ [][NextNormalize]_vars

InitLink ==
  /\ prev \in Neighbours
  /\ next \in Neighbours
  /\ curr \in Candidates
  /\ checked = FALSE
  /\ verdict = FALSE
  /\ NormIdle
  /\ FormIdle

NextLink == CheckLink

SpecLink == InitLink /\ [][NextLink]_vars

----------------------------------------------------------------------------
(* Properties *)

FirstChar(s) == s[1]

IsHiragana(c) == c >= HiraganaFirst /\ c <= HiraganaLast

IsMark(c) == c = CHOON

\* C1: normalize is idempotent: normalizing the result of normalize again
\* gives the same key.
C1_Idempotent == pc = "done" => again = key

\* a key has a last character and s starts with it
StartsWithLastCharOf(s, k) == k # <<>> /\ s # <<>> /\ FirstChar(s) = Last(k)

\* a key has a first character and s ends with it
EndsWithFirstCharOf(s, k) == k # <<>> /\ s # <<>> /\ Last(s) = FirstChar(k)

\* C2: for a candidate that is not blank the verdict is true exactly when
\* (1) the predecessor is absent or empty or the candidate's key starts with
\* the last character of the predecessor's key, and (2) the successor is
\* absent or empty or the candidate's key ends with the first character of
\* the successor's key.
C2_LinkIff ==
  (checked /\ trim(curr) # <<>>) =>
    (verdict <=>
       /\ \/ jpNameOrEmpty(prev) = <<>>
          \/ StartsWithLastCharOf(normalize(curr), normalize(jpNameOrEmpty(prev)))
       /\ \/ jpNameOrEmpty(next) = <<>>
          \/ EndsWithFirstCharOf(normalize(curr), normalize(jpNameOrEmpty(next))))

SameEdges(a, b) ==
  /\ (a = <<>>) <=> (b = <<>>)
  /\ a # <<>> => (FirstChar(a) = FirstChar(b) /\ Last(a) = Last(b))

\* C3: a name followed by the digit "2" has a key with the same first and
\* last character as the name followed by the reading TU + long-vowel mark,
\* and a name followed by the letter "Z" the same as the name followed by
\* ZE + small TU + TO.
C3_SpecialCases ==
  pc = "normalized" =>
    /\ SameEdges(normalize(input \o <<ASCII_TWO>>), normalize(input \o <<TSU, CHOON>>))
    /\ SameEdges(normalize(input \o <<ASCII_Z>>), normalize(input \o <<ZE, SMALL_TSU, TO_>>))

\* C4: checking b after predecessor a gives the same verdict as checking a
\* before successor b, for names a and b that are not blank.
C4_DirectionConsistent ==
  (checked /\ prev # null /\ next = null
     /\ trim(jpNameOrEmpty(prev)) # <<>> /\ trim(curr) # <<>>) =>
    verdict = getShiritoriValidity(null, Some(Pokemon(1, curr, TRUE, FALSE)),
                                   jpNameOrEmpty(prev))

\* C5: a hiragana string and its katakana transliteration (every code point
\* shifted by 0x60) have the same key.
C5_ScriptInsensitive ==
  (pc = "normalized" /\ \A i \in 1..Len(input) : IsHiragana(input[i])) =>
    key = normalize([i \in 1..Len(input) |-> input[i] + KanaOffset])

C5_Witness ==
  /\ pc = "normalized"
  /\ input = <<HIRA_GA, HIRA_SMALL_TSU, HIRA_GA>>
  /\ key = <<KA, TSU, KA>>

\* the number of long-vowel marks of s that have a non-mark character after them
InteriorMarks(s) ==
  Cardinality({i \in 1..Len(s) :
                 IsMark(s[i]) /\ \E j \in (i + 1)..Len(s) : ~IsMark(s[j])})

NumMarks(s) == Cardinality({i \in 1..Len(s) : IsMark(s[i])})

\* C6: appending a long-vowel mark to the input does not change the key, the
\* key never ends with a long-vowel mark, and the marks of the key are
\* exactly the marks that have a non-mark character after them.
C6_TrailingTrim ==
  pc = "normalized" =>
    /\ normalize(Append(input, CHOON)) = key
    /\ key # <<>> => ~IsMark(Last(key))
    /\ NumMarks(key) = InteriorMarks(normalizeSpecialCases(input))

C6_Witness ==
  /\ pc = "normalized"
  /\ input = <<CHOON, KA, CHOON>>
  /\ key = <<CHOON, KA>>

\* the string that reaches the devoicing pass
BeforeDakuten(s) == normalizeKana(normalizeEnding(normalizeSpecialCases(s)))

\* C7: the first and the last character of a key are never voiced or
\* semi-voiced kana of the table, and the devoicing pass leaves every
\* interior character unchanged.
C7_EdgeDevoiced ==
  pc = "normalized" =>
    /\ key # <<>> => (FirstChar(key) \notin Voiced /\ Last(key) \notin Voiced)
    /\ LET t == BeforeDakuten(input)
       IN \A i \in 2..(Len(t) - 1) : normalizeDakuten(t)[i] = t[i]

IsBlank(s) == \A i \in 1..Len(s) : s[i] \in WhiteSpace

SmallKana == smallHira \cup smallKata \cup {12437, 12438}

\* C9: no character of a key is hiragana, small kana or an ASCII capital.
C9_KeyCharacters ==
  pc = "normalized" =>
    \A i \in 1..Len(key) :
      /\ ~IsHiragana(key[i])
      /\ key[i] \notin SmallKana
      /\ ~(key[i] >= 65 /\ key[i] <= 90)

C9_Witness ==
  /\ pc = "normalized"
  /\ input = <<HIRA_GA, HIRA_SMALL_TSU, ASCII_Z>>
  /\ key = <<KA, TSU, 122>>

Filled(index) == selectedPokemon[index] # null

SlotName(index) == jpNameOrEmpty(selectedPokemon[index])

ChainOK ==
  /\ \A i \in Slots :
       (i + 1 \in Slots /\ Filled(i) /\ Filled(i + 1)) =>
         StartsWithLastCharOf(normalize(SlotName(i + 1)), normalize(SlotName(i)))
  /\ \A i \in Slots : \A p \in selectedPokemon[i] : ~p.isRestricted

\* the form with everything erased that slot i's picker is said not to read
NeighboursOnly(i) ==
  [j \in Slots |-> IF j = i - 1 \/ j = i + 1 THEN selectedPokemon[j] ELSE null]

OwnTextOnly(i) == [j \in Slots |-> IF j = i THEN inputValues[j] ELSE <<>>]

OptionsLocal ==
  \A i \in Slots :
    options(i) = filterOptions(NeighboursOnly(i), OwnTextOnly(i),
                               useOnlyFinalEvolutions, i)

\* C10: in the form every two adjacent filled slots satisfy the adjacency
\* rule, no filled slot holds a restricted entry, and the options of a slot
\* are those of a form that keeps only the two neighbouring slots, the
\* slot's own text and the checkbox.
C10_ChainInvariant == ChainOK /\ OptionsLocal

C10_Witness == \A i \in Slots : Filled(i)

====
